---------------------------- MODULE Spec2Model ----------------------------
(***************************************************************************)
(* EmbeddingStr (src/lib.rs): an owned immutable str in two machine words. *)
(* Short texts are stored inside the two words, longer ones in a heap      *)
(* buffer whose pointer and length<<1 are packed into the two words.       *)
(*                                                                         *)
(* Bytes are naturals 0..255.  A usize is the tuple of its base-256        *)
(* digits, digit 1 the least significant, so that 32- and 64-bit words are *)
(* computed exactly.  The two-word buffer is a function from byte offsets  *)
(* 0..STR_INNER_SIZE-1 to bytes, in memory order.                          *)
(***************************************************************************)
EXTENDS Integers, Sequences, FiniteSets, TLC

VARIABLES
    wordBytes,     \* size_of::<usize>() of the build target (4 or 8)
    endian,        \* target_endian of the build: "little" or "big"
    vals,          \* the live EmbeddingStr values: slot -> the two-word buffer
    heap,          \* the global allocator: address -> [live, bytes]
    ghost,         \* per slot: the codec that built the value and the source text
    assertFailed,  \* debug_assert! of new_embedded was violated
    badFree,       \* a buffer was released that was not a live allocation
    out,           \* what the last operation returned
    probe          \* the heap codec applied to an arbitrary fat pointer

vars == <<wordBytes, endian, vals, heap, ghost, assertFailed, badFree, out, probe>>

---------------------------------------------------------------------------
(* Bounds of the model *)

\* slots for simultaneously live values
MaxValues == 1

\* longest source text: one byte more than a 64-bit target's two words
MaxTextLen == 17

\* addresses the allocator hands out: one more than there are values, so
\* that a moving reallocation always finds a free block
NumAddrs == MaxValues + 1

---------------------------------------------------------------------------
(* Bytes, words and texts *)

Byte == 0..255

\* a byte of MaybeUninit storage that was never written
Uninit == -1

Slots == 1..MaxValues

PointerWidths == {4, 8}

Endians == {"little", "big"}

STR_INNER_SIZE == wordBytes * 2

MAX_EMBEDDED_LEN == STR_INNER_SIZE - 1

\* n as a usize, for 0 <= n < 2^24
ToUsize(n) ==
    [j \in 1..wordBytes |->
        IF j = 1 THEN n % 256
        ELSE IF j = 2 THEN (n \div 256) % 256
        ELSE IF j = 3 THEN (n \div 65536) % 256
        ELSE 0]

\* the number a usize holds, when it is below 2^24; otherwise -1
FromUsize(w) ==
    IF \A j \in 4..wordBytes : w[j] = 0
    THEN w[1] + 256 * w[2] + 65536 * w[3]
    ELSE -1

\* w << 1 in wordBytes*8-bit arithmetic (the top bit is shifted out)
Shl1(w) ==
    [j \in 1..wordBytes |->
        ((2 * w[j]) % 256) + (IF j > 1 THEN w[j - 1] \div 128 ELSE 0)]

\* w >> 1
Shr1(w) ==
    [j \in 1..wordBytes |->
        (w[j] \div 2) + (IF j < wordBytes THEN (w[j + 1] % 2) * 128 ELSE 0)]

\* the source texts are prefixes of 1"\4567890123... (a double quote and a
\* backslash in second and third place)
TextByte(i) ==
    IF i = 2 THEN 34
    ELSE IF i = 3 THEN 92
    ELSE 48 + (i % 10)

Text(n) == [i \in 1..n |-> TextByte(i)]

Texts == {Text(n) : n \in 0..MaxTextLen}

\* the address the allocator's k-th block lies at; odd for odd k
AddrWord(k) == [j \in 1..wordBytes |-> (37 * k + 64 * (j - 1)) % 256]

Addrs == {AddrWord(k) : k \in 1..NumAddrs}

---------------------------------------------------------------------------
(* The global allocator *)

FreeBlock == [live |-> FALSE, bytes |-> <<>>]

FreeAddrs(h) == {a \in Addrs : ~h[a].live}

Alloc(h, a, s) == [h EXCEPT ![a] = [live |-> TRUE, bytes |-> s]]

\* releasing [ptr, len]: valid only for a live allocation of that length
ValidFree(h, fat) ==
    /\ fat.ptr \in Addrs
    /\ h[fat.ptr].live
    /\ FromUsize(fat.len) = Len(h[fat.ptr].bytes)

Dealloc(h, fat) ==
    IF fat.ptr \in Addrs THEN [h EXCEPT ![fat.ptr] = FreeBlock] ELSE h

\* a Box<str>: the fat pointer to a live allocation holding s
BoxOf(a, s) == [ptr |-> a, len |-> ToUsize(Len(s))]

---------------------------------------------------------------------------
(* The codecs *)

\* mem::transmute of [usize; 2] to the buffer's bytes, in the target's byte order
WordsToBytes(words) ==
    [off \in 0..(STR_INNER_SIZE - 1) |->
        LET w == words[(off \div wordBytes) + 1]
            j == off % wordBytes
        IN  IF endian = "little" THEN w[j + 1] ELSE w[wordBytes - j]]

\* mem::transmute_copy of the buffer to [usize; 2]
BytesToWords(inner) ==
    [k \in 1..2 |->
        [d \in 1..wordBytes |->
            IF endian = "little"
            THEN inner[(k - 1) * wordBytes + d - 1]
            ELSE inner[(k - 1) * wordBytes + wordBytes - d]]]

\* variant: the pointer word put where the length word belongs
len_least_significant_swapped(pair) ==
    IF endian = "little" THEN <<pair[2], pair[1]>> ELSE <<pair[1], pair[2]>>

len_least_significant(pair) ==
    IF endian = "little" THEN <<pair[1], pair[2]>> ELSE <<pair[2], pair[1]>>

\* offset of the discriminant byte
DiscriminantOffset == IF endian = "little" THEN 0 ELSE STR_INNER_SIZE - 1

\* offset of the first text byte of an embedded value
EmbeddedStart == IF endian = "little" THEN 1 ELSE 0

\* variant: the length byte not shifted, (s.len() as u8) | 1
encoded_len_unshifted(s) == IF Len(s) % 2 = 1 THEN Len(s) % 256 ELSE (Len(s) % 256) + 1

\* ((s.len() as u8) << 1) | 1
encoded_len(s) == (((Len(s) % 256) * 2) % 256) + 1

\* the copy writes first and the discriminant byte last; a write past the
\* buffer's end is left out
new_embedded(s) ==
    [off \in 0..(STR_INNER_SIZE - 1) |->
        IF off = DiscriminantOffset THEN encoded_len(s)
        ELSE IF (off - EmbeddedStart + 1) \in 1..Len(s) THEN s[off - EmbeddedStart + 1]
        ELSE Uninit]

\* debug_assert!(s.len() <= MAX_EMBEDDED_LEN)
new_embedded_assert(s) == Len(s) <= MAX_EMBEDDED_LEN

\* variant: the length stored without the shift
new_heap_unshifted(box) ==
    WordsToBytes(len_least_significant(<<box.len, box.ptr>>))

\* box is the fat pointer Box::into_raw gives
new_heap(box) ==
    WordsToBytes(len_least_significant(<<Shl1(box.len), box.ptr>>))

\* variant: the length word read back without the shift
heap_ptr_unshifted(inner) ==
    LET pair == len_least_significant(BytesToWords(inner))
    IN  [ptr |-> pair[2], len |-> pair[1]]

heap_ptr(inner) ==
    LET pair == len_least_significant(BytesToWords(inner))
    IN  [ptr |-> pair[2], len |-> Shr1(pair[1])]

\* Option::None of embedded_len
None == -1

\* variant: the discriminant read at offset 0 whatever the byte order
embedded_len_first_byte(inner) ==
    IF inner[0] % 2 = 0 THEN None ELSE inner[0] \div 2

embedded_len(inner) ==
    LET discriminant_byte == inner[DiscriminantOffset]
    IN  IF discriminant_byte % 2 = 0 THEN None ELSE discriminant_byte \div 2

mode(inner) == IF embedded_len(inner) # None THEN "Embedded" ELSE "Boxed"

\* the bytes a fat pointer refers to; Dangling when it is not a live
\* allocation of that length
Dangling == <<256>>

Deref(h, fat) ==
    IF ValidFree(h, fat) THEN h[fat.ptr].bytes ELSE Dangling

as_str(inner, h) ==
    IF embedded_len(inner) = None
    THEN Deref(h, heap_ptr(inner))
    ELSE [i \in 1..embedded_len(inner) |-> inner[EmbeddedStart + i - 1]]

---------------------------------------------------------------------------
(* Dropping *)

\* variant: the buffer is not reclaimed
drop_forgets(inner, h) == [heap |-> h, valid |-> TRUE]

\* Drop for EmbeddingStr: what it does to the allocator
drop(inner, h) ==
    IF mode(inner) = "Boxed"
    THEN [heap |-> Dealloc(h, heap_ptr(inner)), valid |-> ValidFree(h, heap_ptr(inner))]
    ELSE [heap |-> h, valid |-> TRUE]

---------------------------------------------------------------------------
(* Formatting *)

\* derive(Debug) of EmbeddingStrMode prints the variant's name
ModeDebug(m) ==
    IF m = "Embedded" THEN <<69, 109, 98, 101, 100, 100, 101, 100>>
    ELSE <<66, 111, 120, 101, 100>>

\* Debug of str: the text between double quotes, with " and \ escaped
RECURSIVE StrEscape(_)
StrEscape(s) ==
    IF Len(s) = 0 THEN <<>>
    ELSE (IF s[1] \in {34, 92} THEN <<92, s[1]>> ELSE <<s[1]>>) \o StrEscape(Tail(s))

StrDebug(s) == <<34>> \o StrEscape(s) \o <<34>>

fmt_display(inner, h) == as_str(inner, h)

\* variant: the text written with {} instead of {:?}
fmt_debug_plain(inner, h) ==
    IF as_str(inner, h) = Dangling THEN Dangling
    ELSE ModeDebug(mode(inner)) \o <<40>> \o as_str(inner, h) \o <<41>>

\* write!(f, "{:?}({:?})", self.mode(), self.as_str())
fmt_debug(inner, h) ==
    IF as_str(inner, h) = Dangling THEN Dangling
    ELSE ModeDebug(mode(inner)) \o <<40>> \o StrDebug(as_str(inner, h)) \o <<41>>

---------------------------------------------------------------------------
(* Construction *)

Borrowed(s) == [kind |-> "Borrowed", text |-> s, ptr |-> <<>>]

\* a String whose buffer lies at a
Owned(s, a) == [kind |-> "Owned", text |-> s, ptr |-> a]

\* a Cow going out of scope releases the String it owns
DropCow(h, cow) ==
    IF cow.kind = "Owned" THEN Dealloc(h, BoxOf(cow.ptr, cow.text)) ELSE h

\* s.into_owned().into_boxed_str(): a borrowed text is copied to a new buffer at
\* b; an owned String is shrunk to fit, which may move its buffer to b
IntoBoxedStr(h, cow, b) ==
    IF cow.kind = "Owned" /\ cow.ptr = b THEN h
    ELSE Alloc(DropCow(h, cow), b, cow.text)

\* variant: s.len() < MAX_EMBEDDED_LEN
FitsEmbedded_strict(s) == Len(s) < MAX_EMBEDDED_LEN

\* variant: s.len() <= STR_INNER_SIZE
FitsEmbedded_loose(s) == Len(s) <= STR_INNER_SIZE

\* s.len() <= MAX_EMBEDDED_LEN, the test both From impls route by
FitsEmbedded(s) == Len(s) <= MAX_EMBEDDED_LEN

\* impl From<Cow<'_, str>>: the value, the allocator afterwards, whether the
\* debug assertion held, and the codec used
From_Cow(cow, h, b) ==
    IF FitsEmbedded(cow.text)
    THEN [inner |-> new_embedded(cow.text), heap |-> DropCow(h, cow),
          ok |-> new_embedded_assert(cow.text), codec |-> "embedded"]
    ELSE [inner |-> new_heap(BoxOf(b, cow.text)), heap |-> IntoBoxedStr(h, cow, b),
          ok |-> TRUE, codec |-> "heap"]

\* impl From<String>
From_String(s, a, h, b) == From_Cow(Owned(s, a), h, b)

\* impl From<&str>
From_str(s, h, b) == From_Cow(Borrowed(s), h, b)

\* impl From<Box<str>>: the box lies at a; when embedded the box is dropped
\* (an empty box, which owns no allocation, is taken as a block of no bytes)
From_Box(s, a, h) ==
    IF FitsEmbedded(s)
    THEN [inner |-> new_embedded(s), heap |-> Dealloc(h, BoxOf(a, s)),
          ok |-> new_embedded_assert(s), codec |-> "embedded"]
    ELSE [inner |-> new_heap(BoxOf(a, s)), heap |-> h,
          ok |-> TRUE, codec |-> "heap"]

---------------------------------------------------------------------------
(* The state machine *)

Idle == [stage |-> "idle"]

Install(v, op, s, r) ==
    /\ vals' = (v :> r.inner) @@ vals
    /\ heap' = r.heap
    /\ ghost' = (v :> [codec |-> r.codec, text |-> s]) @@ ghost
    /\ assertFailed' = (assertFailed \/ ~r.ok)
    /\ out' = [op |-> op, slot |-> v, ret |-> <<>>]
    /\ UNCHANGED <<wordBytes, endian, badFree, probe>>

\* EmbeddingStr::from(s: &str)
FromStr(v) ==
    /\ v \notin DOMAIN vals
    /\ \E s \in Texts, b \in FreeAddrs(heap) :
          Install(v, "from_str", s, From_str(s, heap, b))

\* EmbeddingStr::from(s: String); the caller's String lies at a
FromString(v) ==
    /\ v \notin DOMAIN vals
    /\ \E s \in Texts, a \in FreeAddrs(heap), b \in FreeAddrs(heap) :
          Install(v, "from_string", s, From_String(s, a, Alloc(heap, a, s), b))

\* EmbeddingStr::from(s: Cow<str>)
FromCow(v) ==
    /\ v \notin DOMAIN vals
    /\ \E s \in Texts, b \in FreeAddrs(heap) :
          \/ Install(v, "from_cow", s, From_Cow(Borrowed(s), heap, b))
          \/ \E a \in FreeAddrs(heap) :
                Install(v, "from_cow", s, From_Cow(Owned(s, a), Alloc(heap, a, s), b))

\* EmbeddingStr::from(s: Box<str>); the caller's box lies at a
FromBox(v) ==
    /\ v \notin DOMAIN vals
    /\ \E s \in Texts, a \in FreeAddrs(heap) :
          Install(v, "from_box", s, From_Box(s, a, Alloc(heap, a, s)))

Observe(v, op, ret) ==
    /\ v \in DOMAIN vals
    /\ out' = [op |-> op, slot |-> v, ret |-> ret]
    /\ UNCHANGED <<wordBytes, endian, vals, heap, ghost, assertFailed, badFree, probe>>

ModeOp(v) == Observe(v, "mode", mode(vals[v]))

\* variant: as_str takes the buffer back from the allocator as drop does
AsStrOp_takes(v) ==
    /\ v \in DOMAIN vals
    /\ out' = [op |-> "as_str", slot |-> v, ret |-> as_str(vals[v], heap)]
    /\ heap' = drop(vals[v], heap).heap
    /\ UNCHANGED <<wordBytes, endian, vals, ghost, assertFailed, badFree, probe>>

AsStrOp(v) == Observe(v, "as_str", as_str(vals[v], heap))

DisplayOp(v) == Observe(v, "display", fmt_display(vals[v], heap))

DebugOp(v) == Observe(v, "debug", fmt_debug(vals[v], heap))

\* the value goes out of scope
DropOp(v) ==
    /\ v \in DOMAIN vals
    /\ LET r == drop(vals[v], heap)
       IN  /\ heap' = r.heap
           /\ badFree' = (badFree \/ ~r.valid)
    /\ vals' = [u \in DOMAIN vals \ {v} |-> vals[u]]
    /\ ghost' = [u \in DOMAIN ghost \ {v} |-> ghost[u]]
    /\ out' = [op |-> "drop", slot |-> v, ret |-> mode(vals[v])]
    /\ UNCHANGED <<wordBytes, endian, assertFailed, probe>>

Init ==
    /\ wordBytes \in PointerWidths
    /\ endian \in Endians
    /\ vals = <<>>
    /\ heap = [a \in Addrs |-> FreeBlock]
    /\ ghost = <<>>
    /\ assertFailed = FALSE
    /\ badFree = FALSE
    /\ out = [op |-> "none", slot |-> 0, ret |-> <<>>]
    /\ probe = Idle

Next ==
    \E v \in Slots :
        \/ FromStr(v)
        \/ FromString(v)
        \/ FromCow(v)
        \/ FromBox(v)
        \/ ModeOp(v)
        \/ AsStrOp(v)
        \/ DisplayOp(v)
        \/ DebugOp(v)
        \/ DropOp(v)

Spec == Init /\ [][Next]_vars

---------------------------------------------------------------------------
(* The heap codec alone, on fat pointers of any address and length *)

\* a usize with the given lowest and highest byte
Word(low, mid, top) ==
    [j \in 1..wordBytes |-> IF j = 1 THEN low ELSE IF j = wordBytes THEN top ELSE mid]

ProbeLens ==
    {Word(low, mid, top) : low \in {0, 1, 7, 8, 16, 255}, mid \in {0, 255},
                           top \in {0, 1, 63, 64, 127, 128, 255}}

ProbePtrs == Addrs \cup {Word(255, 255, 255), Word(8, 0, 0)}

InitProbe ==
    /\ wordBytes \in PointerWidths
    /\ endian \in Endians
    /\ vals = <<>>
    /\ heap = [a \in Addrs |-> FreeBlock]
    /\ ghost = <<>>
    /\ assertFailed = FALSE
    /\ badFree = FALSE
    /\ out = [op |-> "none", slot |-> 0, ret |-> <<>>]
    /\ \E p \in ProbePtrs, l \in ProbeLens :
          probe = [stage |-> "boxed", box |-> [ptr |-> p, len |-> l]]

\* EmbeddingStr::new_heap(box)
ProbeNewHeap ==
    /\ probe.stage = "boxed"
    /\ probe' = [stage |-> "packed", box |-> probe.box, inner |-> new_heap(probe.box)]
    /\ UNCHANGED <<wordBytes, endian, vals, heap, ghost, assertFailed, badFree, out>>

\* self.mode() and self.heap_ptr() of the value new_heap built
ProbeHeapPtr ==
    /\ probe.stage = "packed"
    /\ probe' = [stage |-> "decoded", box |-> probe.box, inner |-> probe.inner,
                 mode |-> mode(probe.inner), fat |-> heap_ptr(probe.inner)]
    /\ UNCHANGED <<wordBytes, endian, vals, heap, ghost, assertFailed, badFree, out>>

NextProbe == ProbeNewHeap \/ ProbeHeapPtr

SpecHeapCodec == InitProbe /\ [][NextProbe]_vars

---------------------------------------------------------------------------
(* Properties *)

Constructors == {"from_str", "from_string", "from_cow", "from_box"}

Accessors == {"mode", "as_str", "display", "debug"}

\* the mode the threshold rule gives a text: Embedded up to 2 words - 1 bytes
ModeByLength(s) == IF Len(s) <= 2 * wordBytes - 1 THEN "Embedded" ELSE "Boxed"

\* C1: whatever constructor built it, a value reports Embedded when its source
\* text has at most 2*wordBytes - 1 bytes and Boxed when it has more, and
\* mode() returns just that.
C1_ModeThreshold ==
    /\ \A v \in DOMAIN vals : mode(vals[v]) = ModeByLength(ghost[v].text)
    /\ out.op = "mode" => out.ret = ModeByLength(ghost[out.slot].text)

\* mode() has answered Boxed for a text of exactly 2*wordBytes bytes
C1_Witness ==
    /\ out.op = "mode"
    /\ out.ret = "Boxed"
    /\ Len(ghost[out.slot].text) = 2 * wordBytes

\* C2: as_str() of a value gives back exactly the source text, for values
\* built by new_embedded and for values built by new_heap.
C2_RoundTrip ==
    /\ \A v \in DOMAIN vals : as_str(vals[v], heap) = ghost[v].text
    /\ out.op = "as_str" => out.ret = ghost[out.slot].text

\* as_str() has returned the text of a heap-backed value
C2_Witness ==
    /\ out.op = "as_str"
    /\ ghost[out.slot].codec = "heap"
    /\ Len(out.ret) > 2 * wordBytes

LiveBlocks == {a \in Addrs : heap[a].live}

BoxedValues == {v \in DOMAIN vals : mode(vals[v]) = "Boxed"}

C4_LayoutAsClaimed ==
    probe.stage \in {"packed", "decoded"} =>
        LET w == BytesToWords(probe.inner)
        IN  IF endian = "little"
            THEN w[1] = probe.box.ptr /\ w[2] = Shl1(probe.box.len)
            ELSE w[1] = Shl1(probe.box.len) /\ w[2] = probe.box.ptr

\* C4: in a heap-backed value, on a little-endian target word 0 holds len<<1
\* and word 1 the pointer; on a big-endian target word 0 holds the pointer and
\* word 1 holds len<<1.
C4_Layout ==
    probe.stage \in {"packed", "decoded"} =>
        LET w == BytesToWords(probe.inner)
        IN  IF endian = "little"
            THEN w[1] = Shl1(probe.box.len) /\ w[2] = probe.box.ptr
            ELSE w[1] = probe.box.ptr /\ w[2] = Shl1(probe.box.len)

\* new_heap has packed a pointer that differs from the length word
C4_Witness ==
    /\ probe.stage = "packed"
    /\ endian = "big"
    /\ probe.box.ptr # Shl1(probe.box.len)

\* C5: the low bit of the byte at offset 0 (little-endian) or 2*wordBytes - 1
\* (big-endian) is 1 exactly for the values new_embedded built; then the byte
\* is 2*len + 1 for the text's length len <= 2*wordBytes - 1, and the text
\* lies at offsets 1..len (little-endian) or 0..len-1 (big-endian), clear of
\* that byte.
C5_Discriminant ==
    \A v \in DOMAIN vals :
        LET at == IF endian = "little" THEN 0 ELSE 2 * wordBytes - 1
            first == IF endian = "little" THEN 1 ELSE 0
            b == vals[v][at]
            s == ghost[v].text
        IN  /\ (b % 2 = 1) <=> (ghost[v].codec = "embedded")
            /\ b % 2 = 1 =>
                  /\ b = 2 * Len(s) + 1
                  /\ Len(s) \in 0..(2 * wordBytes - 1)
                  /\ \A i \in 1..Len(s) : vals[v][first + i - 1] = s[i]
                  /\ at \notin first..(first + Len(s) - 1)

\* an embedded value of the greatest length on a big-endian target
C5_Witness ==
    \E v \in DOMAIN vals :
        /\ endian = "big"
        /\ ghost[v].codec = "embedded"
        /\ Len(ghost[v].text) = 2 * wordBytes - 1

\* Embedded("1") in ASCII
EmbeddedOne == <<69, 109, 98, 101, 100, 100, 101, 100, 40, 34, 49, 34, 41>>

\* C6: Debug prints the mode name by the threshold rule, then the text in
\* str's Debug quoting between parentheses; Display prints the text verbatim.
C6_Formatting ==
    /\ \A v \in DOMAIN vals :
          /\ fmt_debug(vals[v], heap) =
                ModeDebug(ModeByLength(ghost[v].text)) \o <<40>>
                    \o StrDebug(ghost[v].text) \o <<41>>
          /\ fmt_display(vals[v], heap) = ghost[v].text
          /\ Len(ghost[v].text) = 1 => fmt_debug(vals[v], heap) = EmbeddedOne
    /\ out.op = "debug" =>
          out.ret = ModeDebug(ModeByLength(ghost[out.slot].text)) \o <<40>>
                        \o StrDebug(ghost[out.slot].text) \o <<41>>
    /\ out.op = "display" => out.ret = ghost[out.slot].text

\* Debug has printed a Boxed value whose text needs escaping
C6_Witness ==
    /\ out.op = "debug"
    /\ mode(vals[out.slot]) = "Boxed"
    /\ Len(out.ret) = Len(ghost[out.slot].text) + 11

\* C7: the debug assertion of new_embedded never fails: every value built by
\* new_embedded has a text of at most MAX_EMBEDDED_LEN bytes and every longer
\* text went to new_heap.
C7_AssertNeverFails ==
    /\ ~assertFailed
    /\ \A v \in DOMAIN vals :
          /\ ghost[v].codec = "embedded" => Len(ghost[v].text) <= 2 * wordBytes - 1
          /\ Len(ghost[v].text) > 2 * wordBytes - 1 => ghost[v].codec = "heap"

\* a constructor has routed a text of 2*wordBytes bytes to the heap codec
C7_Witness ==
    /\ out.op \in Constructors
    /\ Len(ghost[out.slot].text) = 2 * wordBytes
    /\ ghost[out.slot].codec = "heap"
    /\ ~assertFailed

\* isize::MAX as usize
IsizeMax == [j \in 1..wordBytes |-> IF j = wordBytes THEN 127 ELSE 255]

\* w <= isize::MAX
LeIsizeMax(w) == w[wordBytes] <= 127

\* w >= 2*wordBytes
AtLeastInnerSize(w) == w[1] >= 2 * wordBytes \/ \E j \in 2..wordBytes : w[j] # 0

\* 2*w exactly, in wordBytes + 1 digits
Twice(w) ==
    [j \in 1..(wordBytes + 1) |->
        (IF j <= wordBytes THEN (2 * w[j]) % 256 ELSE 0)
            + (IF j > 1 THEN w[j - 1] \div 128 ELSE 0)]

\* C8: for 2*wordBytes <= len <= isize::MAX the stored length word is 2*len
\* without overflow, and heap_ptr gives back the pointer and the length that
\* went into new_heap, on either byte order.
C8_HeapCodecRoundTrip ==
    (/\ probe.stage = "decoded"
     /\ LeIsizeMax(probe.box.len)
     /\ AtLeastInnerSize(probe.box.len)) =>
        LET stored == BytesToWords(probe.inner)[IF endian = "little" THEN 1 ELSE 2]
        IN  /\ Twice(probe.box.len)[wordBytes + 1] = 0
            /\ \A j \in 1..wordBytes : stored[j] = Twice(probe.box.len)[j]
            /\ probe.fat.ptr = probe.box.ptr
            /\ probe.fat.len = probe.box.len

\* heap_ptr has decoded a length of isize::MAX
C8_Witness ==
    /\ probe.stage = "decoded"
    /\ probe.box.len = IsizeMax
    /\ probe.fat = probe.box

\* C9: a value that stays alive over a step keeps its bytes, its mode and its
\* text; the accessors change neither a value nor the heap, mode() returns
\* the mode chosen at construction and as_str() the text given then.
C9_Immutable ==
    [][/\ \A v \in (DOMAIN vals) \cap (DOMAIN vals') :
             /\ vals'[v] = vals[v]
             /\ mode(vals'[v]) = mode(vals[v])
             /\ (heap' = heap \/ as_str(vals'[v], heap') = as_str(vals[v], heap))
       /\ out'.op \in Accessors => vals' = vals /\ heap' = heap
       /\ out'.op = "mode" =>
             out'.ret = (IF ghost'[out'.slot].codec = "embedded"
                         THEN "Embedded" ELSE "Boxed")
       /\ out'.op = "as_str" => out'.ret = ghost'[out'.slot].text]_vars

\* as_str() has been called on a live Boxed value
C9_Witness ==
    /\ out.op = "as_str"
    /\ out.slot \in BoxedValues
    /\ LiveBlocks # {}

\* C10: a value built by new_heap is Boxed whatever its pointer, the
\* discriminant byte being the lowest byte of the len<<1 word; dropping it
\* releases exactly its buffer.
C10_HeapBuiltIsBoxed ==
    \A v \in DOMAIN vals :
        ghost[v].codec = "heap" =>
            /\ mode(vals[v]) = "Boxed"
            /\ vals[v][IF endian = "little" THEN 0 ELSE 2 * wordBytes - 1]
                  = (2 * Len(ghost[v].text)) % 256
            /\ drop(vals[v], heap).valid
            /\ \E a \in LiveBlocks :
                  /\ heap[a].bytes = ghost[v].text
                  /\ drop(vals[v], heap).heap = [heap EXCEPT ![a] = FreeBlock]

\* a live heap-built value whose buffer lies at an odd address
C10_Witness ==
    \E v \in DOMAIN vals :
        /\ ghost[v].codec = "heap"
        /\ heap_ptr(vals[v]).ptr[1] % 2 = 1
        /\ heap_ptr(vals[v]).ptr \in LiveBlocks

===========================================================================
